---- MODULE Spec2Model ----
\* Model of the quiz bot: src/bot.py (conversation handlers, per-user session
\* data) and src/quiz_logic.py (calculate_result).
EXTENDS Integers, Sequences, FiniteSets, TLC

\* ---------------------------------------------------------------------------
\* Bounds
\* ---------------------------------------------------------------------------
\* number of questions in the quiz definition (the shipped quiz has 16)
NumQuestions == 3
\* most spaces typed before, and after, the word of a text message
MaxPad == 1
\* largest per-category score given to calculate_result in SpecCalc
MaxScore == 8

Users == {"u1", "u2"}

\* the chats a user can talk to the bot in
Chats == {"c1", "c2"}

\* ---------------------------------------------------------------------------
\* Quiz definition (script.json): questions, total_questions, interpretations,
\* type_names
\* ---------------------------------------------------------------------------
\* the fixed categories, in the order bot.py:88 inserts them in the tally
Categories == <<"M", "S", "P", "C">>
CategorySet == {Categories[i] : i \in 1..Len(Categories)}

\* option keys are one-letter strings; a string is a sequence of characters
OptionKeys == <<"A", "B", "C", "D">>

\* the category an option scores toward rotates with the question number q
\* (0-based), so the same key scores differently per question
Option(q, i) ==
    [key |-> <<OptionKeys[i]>>, score_type |-> Categories[((i - 1 + q) % 4) + 1]]

\* even questions offer A..D, odd questions A..C
NumOptions(q) == IF q % 2 = 0 THEN 4 ELSE 3

questions ==
    [q \in 0..(NumQuestions - 1) |->
        [options |-> [i \in 1..NumOptions(q) |-> Option(q, i)]]]

\* total_questions matches the length of the question list
TOTAL_QUESTIONS == Cardinality(DOMAIN questions)

type_names == [c \in CategorySet |-> <<"type_name", c>>]

ResultKeys == CategorySet \cup {"NEUTRAL", "POLY", "MIXED"}

interpretations ==
    [k \in ResultKeys |->
        IF k = "MIXED"
        THEN [title_template |-> <<"title_template", k>>, text |-> <<"text", k>>]
        ELSE [title |-> <<"title", k>>, text |-> <<"text", k>>]]

\* str.format(Dominant_Type=..., Secondary_Type=...) on the MIXED template
Format(title_template, dominant_name, second_name) ==
    [template |-> title_template,
     Dominant_Type |-> dominant_name,
     Secondary_Type |-> second_name]

\* ---------------------------------------------------------------------------
\* quiz_logic.py: calculate_result
\* ---------------------------------------------------------------------------
\* a tally is a Python dict: a sequence of <<key, value>> items in insertion
\* order
Items(f) == [i \in 1..Len(Categories) |-> <<Categories[i], f[Categories[i]]>>]

HasKey(scores, k) == \E i \in 1..Len(scores) : scores[i][1] = k

\* variant: x goes in front of the items with an equal score
InsertDesc_BeforeEqual(sorted, x) ==
    LET before == {i \in 1..Len(sorted) : sorted[i][2] > x[2]}
        n == Cardinality(before)
    IN  SubSeq(sorted, 1, n) \o <<x>> \o SubSeq(sorted, n + 1, Len(sorted))

\* insert item x behind every item whose score is >= x's score
InsertDesc(sorted, x) ==
    LET before == {i \in 1..Len(sorted) : sorted[i][2] >= x[2]}
        n == Cardinality(before)
    IN  SubSeq(sorted, 1, n) \o <<x>> \o SubSeq(sorted, n + 1, Len(sorted))

\* sorted(items, key=score, reverse=True): stable, equal scores keep their
\* order in items
RECURSIVE SortedDesc(_)
SortedDesc(items) ==
    IF items = <<>> THEN <<>>
    ELSE InsertDesc(SortedDesc(SubSeq(items, 1, Len(items) - 1)), items[Len(items)])

\* the threshold of quiz_logic.py:36
MixedGap == 2

\* variant: only the first three ranks are compared
AllMax_FirstThree(sorted_scores, max_score) ==
    \A i \in 1..3 : sorted_scores[i][2] = max_score

\* all(s == max_score for _, s in sorted_scores)
AllMax(sorted_scores, max_score) ==
    \A i \in 1..Len(sorted_scores) : sorted_scores[i][2] = max_score

\* variant: only the first two ranks are compared
TopThreeTied_FirstTwo(sorted_scores) ==
    sorted_scores[1][2] = sorted_scores[2][2]

\* sorted_scores[0][1] == sorted_scores[1][1] == sorted_scores[2][1]
TopThreeTied(sorted_scores) ==
    /\ sorted_scores[1][2] = sorted_scores[2][2]
    /\ sorted_scores[2][2] = sorted_scores[3][2]

\* variant: a gap one above the threshold still counts
WithinGap_Wide(max_score, second_score) == (max_score - second_score) <= MixedGap + 1

\* variant: the threshold itself is excluded
WithinGap_Strict(max_score, second_score) == (max_score - second_score) < MixedGap

\* (max_score - second_score) <= 2
WithinGap(max_score, second_score) == (max_score - second_score) <= MixedGap

calculate_result(scores) ==
    LET sorted_scores == SortedDesc(scores)
        max_score == sorted_scores[1][2]
    IN  IF AllMax(sorted_scores, max_score)
        THEN [title |-> interpretations["NEUTRAL"].title,
              text |-> interpretations["NEUTRAL"].text]
        ELSE IF TopThreeTied(sorted_scores)
        THEN [title |-> interpretations["POLY"].title,
              text |-> interpretations["POLY"].text]
        ELSE LET dominant_type == sorted_scores[1][1]
                 second_type == sorted_scores[2][1]
                 second_score == sorted_scores[2][2]
             IN  IF WithinGap(max_score, second_score)
                 THEN [title |-> Format(interpretations["MIXED"].title_template,
                                        type_names[dominant_type],
                                        type_names[second_type]),
                       text |-> interpretations["MIXED"].text]
                 ELSE [title |-> interpretations[dominant_type].title,
                       text |-> interpretations[dominant_type].text]

\* ---------------------------------------------------------------------------
\* bot.py: text messages
\* ---------------------------------------------------------------------------
\* the words a user types: a key in either case, a letter that is no key, two
\* letters, nothing
Words == {<<"A">>, <<"b">>, <<"C">>, <<"d">>, <<"x">>, <<"A", "b">>, << >>}

Spaces(n) == [i \in 1..n |-> " "]

\* the raw texts a user can send, as character sequences: a word with up to
\* MaxPad spaces on either side (Telegram delivers no empty text)
Texts ==
    {Spaces(l) \o w \o Spaces(r) : w \in Words, l \in 0..MaxPad, r \in 0..MaxPad}
        \ {<< >>}

UpperChar(c) ==
    CASE c = "b" -> "B"
      [] c = "d" -> "D"
      [] c = "x" -> "X"
      [] OTHER -> c

\* str.upper()
Upper(text) == [i \in 1..Len(text) |-> UpperChar(text[i])]

IsSpace(c) == c = " "

\* str.strip(): drop leading and trailing whitespace
Strip(text) ==
    LET keep == {i \in 1..Len(text) : ~IsSpace(text[i])}
    IN  IF keep = {} THEN <<>>
        ELSE LET lo == CHOOSE i \in keep : \A j \in keep : i <= j
                 hi == CHOOSE i \in keep : \A j \in keep : i >= j
             IN  SubSeq(text, lo, hi)

\* ---------------------------------------------------------------------------
\* bot.py: session data and handler results
\* ---------------------------------------------------------------------------
\* ConversationHandler states
QUIZ_IN_PROGRESS == "QUIZ_IN_PROGRESS"
END == "END"

\* Python's None
None == "None"

\* context.user_data is a dict: a function whose domain is the keys present
EmptyDict == << >>

Put(d, k, v) == [x \in (DOMAIN d) \cup {k} |-> IF x = k THEN v ELSE d[x]]

\* variant: every counter up to and including k's is incremented
Increment_UpTo(scores, k) ==
    [i \in 1..Len(scores) |->
        IF \E j \in i..Len(scores) : scores[j][1] = k
        THEN <<scores[i][1], scores[i][2] + 1>> ELSE scores[i]]

\* variant: the counter is left as it is
Increment_Nothing(scores, k) == scores

\* scores[k] += 1 on a tally
Increment(scores, k) ==
    [i \in 1..Len(scores) |->
        IF scores[i][1] = k THEN <<scores[i][1], scores[i][2] + 1>> ELSE scores[i]]

\* variant: the tally starts empty
ZeroScores_Empty == << >>

\* variant: the tally starts without the last category
ZeroScores_ThreeCategories ==
    SubSeq(Items([c \in CategorySet |-> 0]), 1, Len(Categories) - 1)

\* {"M": 0, "S": 0, "P": 0, "C": 0}
ZeroScores == Items([c \in CategorySet |-> 0])

NotShown == [called |-> FALSE]

\* what one handler run leaves behind: the session data, the messages sent,
\* the state returned to the ConversationHandler, how handle_answer ended, and
\* the session data show_result saw on entry
Raised(ud, replies) ==
    [user_data |-> ud, replies |-> replies, ret |-> "RAISED",
     outcome |-> "raised", shown |-> NotShown]

\* variant: the keys of the first question, whatever the current one is
valid_keys_FirstQuestion(q_num) ==
    LET options == questions[0].options
    IN  [i \in 1..Len(options) |-> options[i].key]

\* [option['key'] for option in questions[q_num]['options']]
valid_keys(q_num) ==
    LET options == questions[q_num].options
    IN  [i \in 1..Len(options) |-> options[i].key]

\* variant: the loop stops before the last option
get_score_type_for_key_SkipLast(q_num, answer_key) ==
    LET options == questions[q_num].options
        hits == {i \in 1..(Len(options) - 1) : options[i].key = answer_key}
    IN  IF hits = {} THEN None
        ELSE options[CHOOSE i \in hits : \A j \in hits : i <= j].score_type

get_score_type_for_key(q_num, answer_key) ==
    LET options == questions[q_num].options
        hits == {i \in 1..Len(options) : options[i].key = answer_key}
    IN  IF hits = {} THEN None
        ELSE options[CHOOSE i \in hits : \A j \in hits : i <= j].score_type

\* variant: the session data is not cleared after the result
show_result_KeepsData(ud) ==
    IF "scores" \notin DOMAIN ud THEN Raised(ud, <<>>)
    ELSE LET scores == ud.scores
             result == calculate_result(scores)
         IN  [user_data |-> ud,
              replies |-> <<[kind |-> "result", title |-> result.title,
                             text |-> result.text, scores |-> scores]>>,
              ret |-> END,
              outcome |-> "none",
              shown |-> [called |-> TRUE, user_data |-> ud,
                         title |-> result.title, text |-> result.text]]

show_result(ud) ==
    IF "scores" \notin DOMAIN ud THEN Raised(ud, <<>>)
    ELSE LET scores == ud.scores
             result == calculate_result(scores)
         IN  [user_data |-> EmptyDict,
              replies |-> <<[kind |-> "result", title |-> result.title,
                             text |-> result.text, scores |-> scores]>>,
              ret |-> END,
              outcome |-> "none",
              shown |-> [called |-> TRUE, user_data |-> ud,
                         title |-> result.title, text |-> result.text]]

\* variant: the quiz is taken as finished one question early
ask_question_OneEarly(ud) ==
    IF "question_num" \notin DOMAIN ud \/ ud.question_num >= TOTAL_QUESTIONS - 1
    THEN show_result(ud)
    ELSE LET q_num == ud.question_num
             options == questions[q_num].options
         IN  [user_data |-> ud,
              replies |-> <<[kind |-> "question", number |-> q_num + 1,
                             total |-> TOTAL_QUESTIONS,
                             keyboard |-> [i \in 1..Len(options) |-> options[i].key]]>>,
              ret |-> QUIZ_IN_PROGRESS,
              outcome |-> "none",
              shown |-> NotShown]

ask_question(ud) ==
    IF "question_num" \notin DOMAIN ud \/ ud.question_num >= TOTAL_QUESTIONS
    THEN show_result(ud)
    ELSE LET q_num == ud.question_num
         IN  IF q_num \notin DOMAIN questions THEN Raised(ud, <<>>)
             ELSE LET options == questions[q_num].options
                  IN  [user_data |-> ud,
                       replies |-> <<[kind |-> "question", number |-> q_num + 1,
                                      total |-> TOTAL_QUESTIONS,
                                      keyboard |-> [i \in 1..Len(options) |-> options[i].key]]>>,
                       ret |-> QUIZ_IN_PROGRESS,
                       outcome |-> "none",
                       shown |-> NotShown]

\* variant: an existing tally is kept
start_KeepsScores(ud) ==
    LET ud1 == Put(Put(ud, "question_num", 0), "scores",
                   IF "scores" \in DOMAIN ud THEN ud.scores ELSE ZeroScores)
        r == ask_question(ud1)
    IN  [r EXCEPT !.replies = <<[kind |-> "welcome"]>> \o r.replies]

start(ud) ==
    LET ud1 == Put(Put(ud, "question_num", 0), "scores", ZeroScores)
        r == ask_question(ud1)
    IN  [r EXCEPT !.replies = <<[kind |-> "welcome"]>> \o r.replies]

\* variant: the conversation is kept open
session_lost_StaysInProgress(ud) ==
    [user_data |-> ud, replies |-> <<[kind |-> "lost"]>>, ret |-> QUIZ_IN_PROGRESS,
     outcome |-> "lost", shown |-> NotShown]

\* handle_answer without a stored question_num: the restart instruction
session_lost(ud) ==
    [user_data |-> ud, replies |-> <<[kind |-> "lost"]>>, ret |-> END,
     outcome |-> "lost", shown |-> NotShown]

handle_answer(ud, text) ==
    LET answer_key == Strip(Upper(text))
    IN  IF "question_num" \notin DOMAIN ud
        THEN session_lost(ud)
        ELSE
        LET q_num == ud.question_num
        IN  IF q_num \notin DOMAIN questions THEN Raised(ud, <<>>)
            ELSE
            LET keys == valid_keys(q_num)
            IN  IF \A i \in 1..Len(keys) : keys[i] # answer_key
                THEN [user_data |-> ud,
                      replies |-> <<[kind |-> "invalid", valid_keys |-> keys]>>,
                      ret |-> QUIZ_IN_PROGRESS, outcome |-> "rejected",
                      shown |-> NotShown]
                ELSE IF "scores" \notin DOMAIN ud THEN Raised(ud, <<>>)
                ELSE
                LET profile_type == get_score_type_for_key(q_num, answer_key)
                IN  IF profile_type # None /\ ~HasKey(ud.scores, profile_type)
                    THEN Raised(ud, <<>>)
                    ELSE
                    LET scores == IF profile_type # None
                                  THEN Increment(ud.scores, profile_type)
                                  ELSE ud.scores
                        ud1 == Put(Put(ud, "scores", scores), "question_num", q_num + 1)
                        r == IF ud1.question_num < TOTAL_QUESTIONS
                             THEN ask_question(ud1)
                             ELSE show_result(ud1)
                    IN  [r EXCEPT !.outcome = "accepted"]

\* variant: the session data is not cleared
cancel_KeepsData(ud) ==
    [user_data |-> ud, replies |-> <<[kind |-> "cancelled"]>>, ret |-> END,
     outcome |-> "none", shown |-> NotShown]

cancel(ud) ==
    [user_data |-> EmptyDict, replies |-> <<[kind |-> "cancelled"]>>, ret |-> END,
     outcome |-> "none", shown |-> NotShown]

\* ---------------------------------------------------------------------------
\* Startup: quiz_logic.py:4-13 (run by the import of bot.py:15), bot.py:19-43
\* and main
\* ---------------------------------------------------------------------------
\* required_keys of bot.py:25
RequiredKeys == {"questions", "total_questions", "interpretations", "type_names"}

\* what script.json can be: missing, not JSON, JSON that is no object, or an
\* object with some of the four fields, 'questions' a list or not
Documents ==
    [exists : BOOLEAN, json_ok : BOOLEAN, is_object : BOOLEAN,
     keys : SUBSET RequiredKeys, questions_is_list : BOOLEAN]

\* the module body of quiz_logic.py: "ok", or "raise" for an exception that
\* nothing catches
quiz_logic_import(doc) ==
    IF ~doc.exists THEN "raise"
    ELSE IF ~doc.json_ok THEN "raise"
    ELSE IF ~doc.is_object THEN "raise"
    ELSE IF "interpretations" \notin doc.keys THEN "raise"
    ELSE IF "type_names" \notin doc.keys THEN "raise"
    ELSE "ok"

\* variant: 'questions' is not checked to be a list
load_quiz_data_NoListCheck(doc) ==
    IF ~doc.exists THEN "None"
    ELSE IF ~doc.json_ok THEN "raise"
    ELSE IF ~doc.is_object THEN "raise"
    ELSE IF ~(RequiredKeys \subseteq doc.keys) THEN "None"
    ELSE "data"

\* load_quiz_data(): "data", "None", or "raise" for an exception it does not
\* catch
load_quiz_data(doc) ==
    IF ~doc.exists THEN "None"
    ELSE IF ~doc.json_ok THEN "raise"
    ELSE IF ~doc.is_object THEN "raise"
    ELSE IF ~(RequiredKeys \subseteq doc.keys) THEN "None"
    ELSE IF ~doc.questions_is_list THEN "None"
    ELSE "data"

\* ---------------------------------------------------------------------------
\* State
\* ---------------------------------------------------------------------------
VARIABLES
    user_data,    \* context.user_data of each user
    conv,         \* the ConversationHandler's state of each user in each chat
    replies,      \* the messages the last update of each user was answered with
    last,         \* the last update of each user, how its handler ended, and
                  \* the options of the then current question its text spelled
    shown,        \* the session data show_result saw while handling that update
    accepted,     \* answers accepted for each user since the user's last /start
    calc_pc,      \* SpecCalc: "call" before calculate_result ran, "done" after
    calc_scores,  \* SpecCalc: the tally given to calculate_result
    calc_result,  \* SpecCalc: what calculate_result returned
    load_pc,      \* how far startup has come: "import_quiz_logic",
                  \* "load_quiz_data", "main", "polling", or "crashed" (uncaught
                  \* exception) or "exited" (exit(1), return from main)
    load_doc,     \* the script.json startup reads
    load_token    \* whether TELEGRAM_TOKEN is set

vars == <<user_data, conv, replies, last, shown, accepted,
          calc_pc, calc_scores, calc_result, load_pc, load_doc, load_token>>

botVars == <<user_data, conv, replies, last, shown, accepted>>

calcVars == <<calc_pc, calc_scores, calc_result>>

loadVars == <<load_pc, load_doc, load_token>>

\* a script.json that passes every check of startup
GoodDocument ==
    [exists |-> TRUE, json_ok |-> TRUE, is_object |-> TRUE,
     keys |-> RequiredKeys, questions_is_list |-> TRUE]

\* startup done, application.run_polling() running
InitLoaded ==
    /\ load_pc = "polling"
    /\ load_doc = GoodDocument
    /\ load_token = TRUE

NoResult == [title |-> <<"none">>, text |-> <<"none">>]

InitBot ==
    /\ user_data = [u \in Users |-> EmptyDict]
    /\ conv = [u \in Users |-> [c \in Chats |-> END]]
    /\ replies = [u \in Users |-> <<>>]
    /\ last = [u \in Users |-> [chat |-> "none", update |-> "none", handler |-> "none",
                                 outcome |-> "none", picked |-> {}]]
    /\ shown = [u \in Users |-> NotShown]
    /\ accepted = [u \in Users |-> 0]

Init ==
    /\ InitBot
    /\ InitLoaded
    /\ calc_pc = "idle"
    /\ calc_scores = ZeroScores
    /\ calc_result = NoResult

LowerLetter(c) ==
    CASE c = "A" -> "a" [] c = "B" -> "b" [] c = "C" -> "c" [] c = "D" -> "d"
      [] OTHER -> c

\* text spells the one-letter key k: the letter in either case with nothing
\* but spaces around it
Spells(text, k) ==
    \E i \in 1..Len(text) :
        /\ text[i] \in {k[1], LowerLetter(k[1])}
        /\ \A j \in 1..Len(text) : j # i => text[j] = " "

\* the options of the current question of session data ud that text spells
Picked(ud, text) ==
    IF "question_num" \notin DOMAIN ud \/ ud.question_num \notin DOMAIN questions
    THEN {}
    ELSE LET options == questions[ud.question_num].options
         IN  {i \in DOMAIN options : Spells(text, options[i].key)}

\* the ConversationHandler keeps its state when the handler raises
NextState(old, ret) == IF ret = "RAISED" THEN old ELSE ret

\* variant: the session data is kept in one place for all users
Handled_SharedData(u, c, update, h, r, picked) ==
    /\ user_data' = [v \in Users |-> r.user_data]
    /\ conv' = [conv EXCEPT ![u][c] = NextState(@, r.ret)]
    /\ replies' = [replies EXCEPT ![u] = r.replies]
    /\ last' = [last EXCEPT ![u] = [chat |-> c, update |-> update, handler |-> h,
                                    outcome |-> r.outcome, picked |-> picked]]
    /\ shown' = [shown EXCEPT ![u] = r.shown]

\* one update of user u in chat c handled by handler h with result r: the
\* session data is the user's, the conversation that of the user in the chat
Handled(u, c, update, h, r, picked) ==
    /\ user_data' = [user_data EXCEPT ![u] = r.user_data]
    /\ conv' = [conv EXCEPT ![u][c] = NextState(@, r.ret)]
    /\ replies' = [replies EXCEPT ![u] = r.replies]
    /\ last' = [last EXCEPT ![u] = [chat |-> c, update |-> update, handler |-> h,
                                    outcome |-> r.outcome, picked |-> picked]]
    /\ shown' = [shown EXCEPT ![u] = r.shown]

\* /start: entry point, and a handler of QUIZ_IN_PROGRESS
Start(u, c) ==
    /\ \E r \in {start(user_data[u])} : Handled(u, c, "/start", "start", r, {})
    /\ accepted' = [accepted EXCEPT ![u] = 0]
    /\ UNCHANGED <<calcVars, loadVars>>

\* a text message that is not a command, while QUIZ_IN_PROGRESS
HandleAnswer(u, c, text) ==
    /\ conv[u][c] = QUIZ_IN_PROGRESS
    /\ \E r \in {handle_answer(user_data[u], text)} :
          /\ Handled(u, c, "text", "handle_answer", r, Picked(user_data[u], text))
          /\ accepted' = [accepted EXCEPT ![u] =
                             IF r.outcome = "accepted" THEN @ + 1 ELSE @]
    /\ UNCHANGED <<calcVars, loadVars>>

\* /cancel: the fallback, looked at only inside a conversation
Cancel(u, c) ==
    /\ conv[u][c] = QUIZ_IN_PROGRESS
    /\ \E r \in {cancel(user_data[u])} : Handled(u, c, "/cancel", "cancel", r, {})
    /\ UNCHANGED <<accepted, calcVars, loadVars>>

\* an update no handler of the conversation matches: text or /cancel outside
\* a conversation, any other command anywhere
Unhandled(u, c, update) ==
    /\ \/ update = "/other"
       \/ update \in {"text", "/cancel"} /\ conv[u][c] = END
    /\ replies' = [replies EXCEPT ![u] = <<>>]
    /\ last' = [last EXCEPT ![u] = [chat |-> c, update |-> update, handler |-> "none",
                                    outcome |-> "none", picked |-> {}]]
    /\ shown' = [shown EXCEPT ![u] = NotShown]
    /\ UNCHANGED <<user_data, conv, accepted, calcVars, loadVars>>

\* Spec: one user talking to the bot in every chat
SeatsOneUser == {<<"u1", c>> : c \in Chats}

Next ==
    \/ \E seat \in SeatsOneUser : Start(seat[1], seat[2])
    \/ \E seat \in SeatsOneUser, text \in Texts : HandleAnswer(seat[1], seat[2], text)
    \/ \E seat \in SeatsOneUser : Cancel(seat[1], seat[2])
    \/ \E seat \in SeatsOneUser, update \in {"text", "/cancel", "/other"} :
          Unhandled(seat[1], seat[2], update)

Spec == Init /\ [][Next]_vars

\* ---------------------------------------------------------------------------
\* SpecUsers: every user talking to the bot in one chat
\* ---------------------------------------------------------------------------
SeatsOneChat == {<<u, "c1">> : u \in Users}

NextUsers ==
    \/ \E seat \in SeatsOneChat : Start(seat[1], seat[2])
    \/ \E seat \in SeatsOneChat, text \in Texts : HandleAnswer(seat[1], seat[2], text)
    \/ \E seat \in SeatsOneChat : Cancel(seat[1], seat[2])
    \/ \E seat \in SeatsOneChat, update \in {"text", "/cancel", "/other"} :
          Unhandled(seat[1], seat[2], update)

SpecUsers == Init /\ [][NextUsers]_vars

\* ---------------------------------------------------------------------------
\* SpecLoad: startup on every script.json of Documents, then /start
\* ---------------------------------------------------------------------------
InitLoad ==
    /\ InitBot
    /\ calc_pc = "idle"
    /\ calc_scores = ZeroScores
    /\ calc_result = NoResult
    /\ load_pc = "import_quiz_logic"
    /\ load_doc \in Documents
    /\ load_token \in BOOLEAN

\* bot.py:15, from quiz_logic import calculate_result
ImportQuizLogic ==
    /\ load_pc = "import_quiz_logic"
    /\ load_pc' = IF quiz_logic_import(load_doc) = "raise" THEN "crashed"
                  ELSE "load_quiz_data"
    /\ UNCHANGED <<load_doc, load_token, botVars, calcVars>>

\* bot.py:38-43, QUIZ_DATA = load_quiz_data(); if not QUIZ_DATA: exit(1)
LoadQuizData ==
    /\ load_pc = "load_quiz_data"
    /\ \E data \in {load_quiz_data(load_doc)} :
          load_pc' = IF data = "raise" THEN "crashed"
                     ELSE IF data = "None" THEN "exited"
                     ELSE "main"
    /\ UNCHANGED <<load_doc, load_token, botVars, calcVars>>

\* main(): returns without a token, else builds the application and polls
Main ==
    /\ load_pc = "main"
    /\ load_pc' = IF load_token THEN "polling" ELSE "exited"
    /\ UNCHANGED <<load_doc, load_token, botVars, calcVars>>

NextLoad ==
    \/ ImportQuizLogic
    \/ LoadQuizData
    \/ Main
    \/ load_pc = "polling" /\ Start("u1", "c1")

SpecLoad == InitLoad /\ [][NextLoad]_vars

\* ---------------------------------------------------------------------------
\* SpecCalc: calculate_result applied to every tally with scores 0..MaxScore
\* ---------------------------------------------------------------------------
InitCalc ==
    /\ InitBot
    /\ InitLoaded
    /\ calc_pc = "call"
    /\ calc_scores \in {Items(f) : f \in [CategorySet -> 0..MaxScore]}
    /\ calc_result = NoResult

Classify ==
    /\ calc_pc = "call"
    /\ calc_result' = calculate_result(calc_scores)
    /\ calc_pc' = "done"
    /\ UNCHANGED <<calc_scores, botVars, loadVars>>

NextCalc == Classify

SpecCalc == InitCalc /\ [][NextCalc]_vars

\* ---------------------------------------------------------------------------
\* Properties of the session (Spec)
\* ---------------------------------------------------------------------------
RECURSIVE SumItems(_)
SumItems(scores) ==
    IF scores = <<>> THEN 0
    ELSE scores[1][2] + SumItems(SubSeq(scores, 2, Len(scores)))

HasSession(u) == user_data[u] # EmptyDict

\* the session data as the handler of the step left it before any clear():
\* what show_result saw if it ran, the stored data otherwise
DataAfter(u) == IF shown'[u].called THEN shown'[u].user_data ELSE user_data'[u]

Count(ud, c) ==
    IF \E i \in 1..Len(ud.scores) : ud.scores[i][1] = c
    THEN ud.scores[CHOOSE i \in 1..Len(ud.scores) : ud.scores[i][1] = c][2]
    ELSE -1

KeysOf(q) == [i \in DOMAIN questions[q].options |-> questions[q].options[i].key]

\* C1: while a session exists, and at the moment its result is shown, the four
\* counters of the tally sum to the number of answers accepted since the
\* user's last /start.
C1_TallySumIsAccepted ==
    \A u \in Users :
        /\ HasSession(u) => SumItems(user_data[u].scores) = accepted[u]
        /\ shown[u].called => SumItems(shown[u].user_data.scores) = accepted[u]

C1_Witness ==
    /\ HasSession("u1")
    /\ last["u1"].outcome = "accepted"
    /\ accepted["u1"] = 2
    /\ Count(user_data["u1"], "S") = 2

\* u's update was the one handled in the step
Acted(u) ==
    \/ user_data'[u] # user_data[u]
    \/ last'[u] # last[u]
    \/ replies'[u] # replies[u]

\* C2: a text that spells none of the current question's keys changes neither
\* index nor tally, keeps the conversation in QUIZ_IN_PROGRESS and is answered
\* with exactly the current question's keys, whatever was sent before it.
C2_RejectionChangesNothing ==
    [][\A u \in Users :
          (HasSession(u) /\ last'[u].handler = "handle_answer"
           /\ conv[u][last'[u].chat] = QUIZ_IN_PROGRESS /\ last'[u].picked = {})
          => /\ user_data'[u] = user_data[u]
             /\ conv'[u][last'[u].chat] = QUIZ_IN_PROGRESS
             /\ last'[u].outcome = "rejected"
             /\ accepted'[u] = accepted[u]
             /\ replies'[u] = <<[kind |-> "invalid",
                                 valid_keys |-> KeysOf(user_data[u].question_num)]>>]_vars

C2_Witness ==
    /\ last["u1"].outcome = "rejected"
    /\ user_data["u1"].question_num = 1
    /\ accepted["u1"] = 1
    /\ replies["u1"] = <<[kind |-> "invalid", valid_keys |-> <<<<"A">>, <<"B">>, <<"C">>>>]>>

\* C3: an answer handled in QUIZ_IN_PROGRESS either is rejected and leaves the
\* index where it was, or is accepted, moves the index on by exactly 1 and
\* adds exactly 1 to the counter of the picked option's category and nothing
\* to the other three.
C3_AnswerStep ==
    [][\A u \in Users :
          (HasSession(u) /\ last'[u].handler = "handle_answer" /\ Acted(u))
          => LET q == user_data[u].question_num
             IN  \/ /\ last'[u].outcome = "rejected"
                    /\ user_data'[u].question_num = q
                 \/ /\ last'[u].outcome = "accepted"
                    /\ DataAfter(u).question_num = q + 1
                    /\ \E i \in last'[u].picked :
                          \A c \in CategorySet :
                              Count(DataAfter(u), c) =
                                  Count(user_data[u], c)
                                  + (IF c = questions[q].options[i].score_type
                                     THEN 1 ELSE 0)]_vars

C3_Witness ==
    /\ last["u1"].outcome = "accepted"
    /\ HasSession("u1")
    /\ user_data["u1"].question_num = 2
    /\ Count(user_data["u1"], "M") = 1
    /\ Count(user_data["u1"], "C") = 1

\* C4: once total_questions answers have been accepted since /start the index
\* has reached total_questions and the session is complete, its result
\* classified and shown; the result is never shown with fewer, and a session
\* started or answered with fewer is in QUIZ_IN_PROGRESS (in the chat of that
\* update) at the index that equals the number of accepted answers.
C4_CompleteAfterTotal ==
    \A u \in Users :
        /\ (accepted[u] = TOTAL_QUESTIONS /\ last[u].outcome = "accepted")
           => /\ shown[u].called
              /\ shown[u].user_data.question_num = TOTAL_QUESTIONS
              /\ conv[u][last[u].chat] = END
              /\ Len(replies[u]) = 1
              /\ replies[u][1].kind = "result"
              /\ replies[u][1].title = calculate_result(shown[u].user_data.scores).title
        /\ accepted[u] = TOTAL_QUESTIONS => ~HasSession(u)
        /\ accepted[u] < TOTAL_QUESTIONS => ~shown[u].called
        /\ (accepted[u] < TOTAL_QUESTIONS /\ last[u].handler \in {"start", "handle_answer"}
            /\ last[u].outcome # "lost")
           => /\ conv[u][last[u].chat] = QUIZ_IN_PROGRESS
              /\ HasSession(u)
              /\ user_data[u].question_num = accepted[u]

C4_Witness ==
    /\ accepted["u1"] = TOTAL_QUESTIONS
    /\ last["u1"].outcome = "accepted"
    /\ shown["u1"].called
    /\ shown["u1"].user_data.question_num = TOTAL_QUESTIONS
    /\ conv["u1"][last["u1"].chat] = END

\* C5: whenever session data exists, and at the moment a result is shown, the
\* tally has exactly the keys M, S, P, C with values >= 0 and the index is in
\* 0..total_questions.
WellFormed(ud) ==
    /\ DOMAIN ud = {"question_num", "scores"}
    /\ ud.question_num \in 0..TOTAL_QUESTIONS
    /\ Len(ud.scores) = Cardinality(CategorySet)
    /\ {ud.scores[i][1] : i \in 1..Len(ud.scores)} = CategorySet
    /\ \A i \in 1..Len(ud.scores) : ud.scores[i][2] \in Nat

C5_SessionWellFormed ==
    \A u \in Users :
        /\ HasSession(u) => WellFormed(user_data[u])
        /\ shown[u].called => WellFormed(shown[u].user_data)

C5_Witness ==
    /\ shown["u1"].called
    /\ shown["u1"].user_data.question_num = TOTAL_QUESTIONS
    /\ Count(shown["u1"].user_data, "P") = TOTAL_QUESTIONS

\* C11: handle_answer ends every answer in acceptance, rejection or the
\* lost-session reply and never raises, whatever the stored session data and
\* the text.
C11_AnswerNeverRaises ==
    \A u \in Users :
        /\ last[u].outcome # "raised"
        /\ last[u].handler = "handle_answer"
           => last[u].outcome \in {"accepted", "rejected", "lost"}

C11_Witness ==
    /\ last["u1"].handler = "handle_answer"
    /\ last["u1"].outcome = "accepted"
    /\ last["u1"].picked = {4}
    /\ shown["u1"].called
    /\ conv["u1"]["c1"] = END
    /\ conv["u1"]["c2"] = END

\* C12: an answer that arrives while no question index is stored gets the
\* restart instruction, ends the conversation of its chat, leaves the session
\* data absent and does not raise.
C12_LostSession ==
    [][\A u \in Users :
          (~HasSession(u) /\ last'[u].handler = "handle_answer" /\ Acted(u))
          => /\ last'[u].outcome = "lost"
             /\ replies'[u] = <<[kind |-> "lost"]>>
             /\ conv'[u][last'[u].chat] = END
             /\ user_data'[u] = EmptyDict
             /\ accepted'[u] = accepted[u]
             /\ ~shown'[u].called]_vars

C12_Witness ==
    /\ last["u1"].handler = "handle_answer"
    /\ last["u1"].outcome = "lost"
    /\ last["u1"].chat = "c1"
    /\ replies["u1"] = <<[kind |-> "lost"]>>
    /\ conv["u1"]["c1"] = END
    /\ ~HasSession("u1")

\* C13: every text message of a user is answered with at least one message,
\* in every state of the conversation.
C13_EveryTextAnswered ==
    \A u \in Users : last[u].update = "text" => replies[u] # <<>>

\* C14: /cancel in a conversation in progress removes index and tally, ends
\* the conversation, computes and shows no result, and a /start that follows
\* begins with an empty tally.
C14_CancelClears ==
    [][\A u \in Users :
          /\ (last'[u].handler = "cancel" /\ Acted(u))
             => /\ user_data'[u] = EmptyDict
                /\ conv'[u][last'[u].chat] = END
                /\ ~shown'[u].called
                /\ replies'[u] = <<[kind |-> "cancelled"]>>
          /\ (last[u].handler = "cancel" /\ last'[u].handler = "start")
             => /\ accepted'[u] = 0
                /\ \A c \in CategorySet : Count(user_data'[u], c) = 0]_vars

C14_Witness ==
    /\ last["u1"].handler = "cancel"
    /\ accepted["u1"] = 2
    /\ ~HasSession("u1")
    /\ conv["u1"][last["u1"].chat] = END

\* something of user u differs after the step
Changed(u) ==
    \/ user_data'[u] # user_data[u]
    \/ conv'[u] # conv[u]
    \/ accepted'[u] # accepted[u]
    \/ replies'[u] # replies[u]
    \/ last'[u] # last[u]
    \/ shown'[u] # shown[u]

\* C15: a step changes the index, tally, conversation and replies of one user
\* at most, and the tally a result is computed from is that user's stored
\* tally plus the category of the option that user just picked.
C15_UsersIsolated ==
    [][/\ \A u, v \in Users : u # v => ~(Changed(u) /\ Changed(v))
       /\ \A u \in Users :
             (Changed(u) /\ shown'[u].called)
             => /\ HasSession(u)
                /\ \E i \in last'[u].picked :
                      \A c \in CategorySet :
                          Count(shown'[u].user_data, c) =
                              Count(user_data[u], c)
                              + (IF c = questions[user_data[u].question_num]
                                            .options[i].score_type
                                 THEN 1 ELSE 0)]_vars

C15_Witness ==
    /\ HasSession("u1")
    /\ HasSession("u2")
    /\ user_data["u1"].question_num = 2
    /\ accepted["u1"] = 2
    /\ user_data["u2"].question_num = 1
    /\ accepted["u2"] = 1
    /\ user_data["u1"].scores # user_data["u2"].scores
    /\ last["u2"].outcome = "accepted"

DocumentComplete ==
    /\ load_doc.exists
    /\ load_doc.json_ok
    /\ load_doc.is_object
    /\ load_doc.keys = RequiredKeys
    /\ load_doc.questions_is_list

\* C16: with a script.json that is missing, is not JSON, lacks one of the
\* four fields or has a 'questions' that is no list, startup ends before
\* main: the bot never polls, no session is started and no question is asked.
C16_StartupAborts ==
    ~DocumentComplete
    => /\ load_pc \in {"import_quiz_logic", "load_quiz_data", "crashed", "exited"}
       /\ \A u \in Users : ~HasSession(u) /\ replies[u] = <<>>

C16_Witness ==
    /\ load_pc = "exited"
    /\ load_doc.exists
    /\ load_doc.json_ok
    /\ load_doc.is_object
    /\ load_doc.keys = RequiredKeys
    /\ ~load_doc.questions_is_list

\* C17: after /start, received at any point, the index is 0 and the four
\* counters are 0, so nothing accepted before it is left in the tally.
C17_StartResets ==
    \A u \in Users :
        last[u].handler = "start"
        => /\ HasSession(u)
           /\ user_data[u].question_num = 0
           /\ \A c \in CategorySet : Count(user_data[u], c) = 0
           /\ accepted[u] = 0
           /\ conv[u][last[u].chat] = QUIZ_IN_PROGRESS

\* /start in one chat while the conversation of the other chat is in progress
C17_Witness ==
    /\ last["u1"].handler = "start"
    /\ last["u1"].chat = "c2"
    /\ conv["u1"]["c1"] = QUIZ_IN_PROGRESS
    /\ user_data["u1"].question_num = 0
    /\ Count(user_data["u1"], "M") = 0

\* C18: whenever show_result runs, the four counters of the tally it
\* classifies sum to exactly total_questions.
C18_ResultOnCompleteTally ==
    \A u \in Users :
        shown[u].called
        => /\ SumItems(shown[u].user_data.scores) = TOTAL_QUESTIONS
           /\ replies[u] = <<[kind |-> "result",
                              title |-> calculate_result(shown[u].user_data.scores).title,
                              text |-> calculate_result(shown[u].user_data.scores).text,
                              scores |-> shown[u].user_data.scores]>>

C18_Witness ==
    /\ shown["u1"].called
    /\ Count(shown["u1"].user_data, "M") = 1
    /\ Count(shown["u1"].user_data, "S") = 1
    /\ Count(shown["u1"].user_data, "P") = 1
    /\ Count(shown["u1"].user_data, "C") = 0

Stored(u) ==
    /\ "question_num" \in DOMAIN user_data[u]
    /\ "scores" \in DOMAIN user_data[u]
    /\ user_data[u].question_num < TOTAL_QUESTIONS

InConversation(u) == \E c \in Chats : conv[u][c] = QUIZ_IN_PROGRESS

\* C19 as stated: a user has a conversation in QUIZ_IN_PROGRESS exactly when
\* index and tally are both stored with index < total_questions.
C19_ConversationIffStored ==
    \A u \in Users : InConversation(u) <=> Stored(u)

\* C19: index and tally are stored together or not at all; when they are
\* stored the index is below total_questions and a conversation of the user
\* is in QUIZ_IN_PROGRESS; after completion or cancel both are absent and the
\* conversation of that chat has ended. A conversation in another chat can
\* stay in QUIZ_IN_PROGRESS with nothing stored.
C19_StoredImpliesConversation ==
    \A u \in Users :
        /\ user_data[u] = EmptyDict \/ (Stored(u) /\ InConversation(u))
        /\ (shown[u].called \/ last[u].handler = "cancel")
           => (~HasSession(u) /\ conv[u][last[u].chat] = END)

C19_Witness ==
    /\ last["u1"].handler = "cancel"
    /\ last["u1"].chat = "c2"
    /\ ~HasSession("u1")
    /\ conv["u1"]["c2"] = END
    /\ conv["u1"]["c1"] = QUIZ_IN_PROGRESS

\* ---------------------------------------------------------------------------
\* Properties of calculate_result (SpecCalc)
\* ---------------------------------------------------------------------------
\* the score of category c in the tally given to calculate_result
S(c) == Count([scores |-> calc_scores], c)

Tally(m, s, p, c) == <<<<"M", m>>, <<"S", s>>, <<"P", p>>, <<"C", c>>>>

Entry(k) == [title |-> interpretations[k].title, text |-> interpretations[k].text]

AllEqual == \A c, d \in CategorySet : S(c) = S(d)

\* three categories share the top score and the fourth is below it
ThreeTiedOnTop ==
    \E c \in CategorySet : \A d, e \in CategorySet \ {c} : S(d) = S(e) /\ S(c) < S(d)

TopScore == CHOOSE v \in 0..MaxScore : (\E c \in CategorySet : S(c) = v)
                                       /\ (\A c \in CategorySet : S(c) <= v)

\* the second score of the ranking: the top score of the other three
\* categories once one holder of the top score is set aside
SecondScore ==
    CHOOSE v \in 0..MaxScore :
        \E c \in CategorySet :
            /\ S(c) = TopScore
            /\ \E d \in CategorySet \ {c} : S(d) = v
            /\ \A d \in CategorySet \ {c} : S(d) <= v

Position(c) == CHOOSE i \in 1..Len(Categories) : Categories[i] = c

\* d ranks ahead of c: by score, then by declaration order M, S, P, C
Ahead(d, c) == S(d) > S(c) \/ (S(d) = S(c) /\ Position(d) < Position(c))

\* the category with exactly n - 1 categories ahead of it
Ranked(n) ==
    CHOOSE c \in CategorySet :
        Cardinality({d \in CategorySet \ {c} : Ahead(d, c)}) = n - 1

\* C6: the NEUTRAL title and text are returned if and only if all four scores
\* are equal, also where the later branches would apply as well.
C6_NeutralIffAllEqual ==
    calc_pc = "done" => (calc_result = Entry("NEUTRAL") <=> AllEqual)

C6_Witness ==
    /\ calc_pc = "done"
    /\ calc_scores = Tally(4, 4, 4, 4)
    /\ calc_result = Entry("NEUTRAL")

\* C7: the POLY title and text are returned if and only if three categories
\* share the top score and the fourth is strictly below, whichever three.
C7_PolyIffThreeTied ==
    calc_pc = "done" => (calc_result = Entry("POLY") <=> ThreeTiedOnTop)

C7_Witness ==
    /\ calc_pc = "done"
    /\ calc_scores = Tally(5, 5, 5, 1)
    /\ calc_result = Entry("POLY")

C9_PureIffGapOverTwo ==
    calc_pc = "done"
    => /\ (\E c \in CategorySet : calc_result = Entry(c)) <=> TopScore - SecondScore > 2
       /\ \A c \in CategorySet :
             calc_result = Entry(c)
             => /\ S(c) = TopScore
                /\ \A d \in CategorySet \ {c} : S(d) < TopScore

C9_Witness ==
    /\ calc_pc = "done"
    /\ calc_scores = Tally(8, 2, 2, 4)
    /\ calc_result = Entry("M")

\* C10: the result is determined by the scores of the categories alone:
\* categories rank by score, equal scores in the order M, S, P, C, and the
\* result is that of the first and second category of this ranking.
C10_ResultOfRanking ==
    calc_pc = "done"
    => LET first == Ranked(1)
           second == Ranked(2)
           third == Ranked(3)
           fourth == Ranked(4)
       IN  calc_result =
             IF S(first) = S(fourth) THEN Entry("NEUTRAL")
             ELSE IF S(first) = S(third) THEN Entry("POLY")
             ELSE IF S(first) - S(second) <= 2
             THEN [title |-> [template |-> interpretations["MIXED"].title_template,
                              Dominant_Type |-> type_names[first],
                              Secondary_Type |-> type_names[second]],
                   text |-> interpretations["MIXED"].text]
             ELSE Entry(first)

C10_Witness ==
    /\ calc_pc = "done"
    /\ calc_scores = Tally(1, 5, 1, 5)
    /\ calc_result.text = interpretations["MIXED"].text
    /\ calc_result.title.Dominant_Type = type_names["S"]
    /\ calc_result.title.Secondary_Type = type_names["C"]

====
